---- MODULE Spec2Model ----
(***************************************************************************)
(* A model of the Netlify Graph build plugin (src/index.js).               *)
(*                                                                         *)
(* Spec (Init/Next) is one run of the onPreBuild handler, one action per   *)
(* step between its calls into the collaborators (the config resolver,     *)
(* the file system, the OneGraph client, the GraphQL engine, the           *)
(* generator, the build utils).  Every call into a collaborator is         *)
(* appended to `calls`, so orderings can be stated on the log.             *)
(*                                                                         *)
(* build.failBuild is Netlify Build's utility: it throws.  The handler     *)
(* relies on that (lines 522-528 and 577 have no `return` after it), so a  *)
(* failBuild inside the `try` of line 503 lands in the `catch` of line     *)
(* 630, which calls failBuild again; that second call throws out of the    *)
(* handler.                                                                *)
(***************************************************************************)
EXTENDS Naturals, Sequences, FiniteSets, TLC

VARIABLES
  pc,                        \* position in onPreBuild
  env,                       \* the environment the run starts in
  calls,                     \* log of the calls made into collaborators
  thrown,                    \* the error on its way to the catch of line 630
  outcome,                   \* "running", "returned" or "failed" (failBuild threw out)
  configInput,               \* what getNetlifyGraphConfig reads
  netlifyGraphConfig,        \* line 510
  netlifyGraphJson,          \* line 516
  newSchemaId,               \* line 555
  schema,                    \* line 559
  filenames,                 \* line 361
  operationFiles,            \* line 359
  parsedDoc,                 \* line 384
  currentOperationsDoc,      \* line 580
  failedPersistedFunctions,  \* line 593
  functionDefinitions        \* line 593

vars == <<pc, env, calls, thrown, outcome, configInput, netlifyGraphConfig,
          netlifyGraphJson, newSchemaId, schema,
          filenames, operationFiles, parsedDoc, currentOperationsDoc,
          failedPersistedFunctions, functionDefinitions>>

(***************************************************************************)
(* Bounds                                                                  *)
(***************************************************************************)
MaxFiles == 2
MaxFailed == 2
MaxFunctions == 2
MaxUserSettings == 2

(***************************************************************************)
(* Values                                                                  *)
(***************************************************************************)
Undefined == "undefined"
Null == "null"

RECURSIVE Join(_, _)
Join(items, sep) ==
  IF Len(items) = 0 THEN ""
  ELSE IF Len(items) = 1 THEN items[1]
  ELSE items[1] \o sep \o Join(Tail(items), sep)

\* The texts of lines 495, 523, 577, 632, 612, 617 and 626.  A TLA+ string cannot
\* hold a backquote: the quoted commands are written with ' instead.
MissingTokenTitle == "Netlify Graph Build Plugin: Missing NETLIFY_GRAPH_PERSIST_QUERY_TOKEN"
ReadJsonErrorMessage == "Error reading netlifyGraph.json. Be sure to run 'netlify graph:init' and commit the resulting json file."
LegacyMessage == "Found legacy single-file operations library. Run 'netlify graph:library' to migrate"
GenericErrorMessage == "Error generating a production Netlify Graph client"
FailedTitle(failedFunctionNames) ==
  "Netlify Graph Build Plugin: Failed to persist "
    \o ToString(Len(failedFunctionNames)) \o " Graph functions"
PersistErrorMessage(failedFunctionNames) ==
  "Error persisting Netlify Graph operations for production: ["
    \o Join(failedFunctionNames, ", ") \o "]"
SuccessTitle(definitions) ==
  "Netlify Graph Build Plugin: Successfully persisted "
    \o ToString(Len(definitions)) \o " Graph functions"

\* One entry of the call log: the collaborator called, the message or title
\* it was given, the names of the failed functions handed over as details,
\* the error handed over, and whether the call returned.
Call(op, msg, details, err, ok) ==
  [op |-> op, msg |-> msg, details |-> details, err |-> err, ok |-> ok]
Step(op, ok) == Call(op, "", <<>>, "", ok)

(***************************************************************************)
(* readGraphQLOperationsSourceFiles (lines 354-398)                        *)
(*                                                                         *)
(* A file name is the sequence of its characters.  A file's content is     *)
(* what GraphQL.parse makes of it: it throws ("valid" is FALSE) or yields  *)
(* a document with the listed definitions, each definition standing for    *)
(* its printed text.                                                       *)
(***************************************************************************)
File(name, valid, definitions) ==
  [name |-> name, content |-> [valid |-> valid, definitions |-> definitions]]

Files ==
  { File(<<"a", ".", "g", "r", "a", "p", "h", "q", "l">>, TRUE, <<"query A1", "query A2">>),
    File(<<"b", ".", "G", "r", "a", "p", "h", "Q", "L">>, TRUE, <<"mutation B1">>),
    File(<<"c", ".", "g", "r", "a", "p", "h", "q", "l">>, TRUE, <<>>),
    File(<<"d", ".", "g", "r", "a", "p", "h", "q", "l", ".", "b", "a", "k">>, TRUE, <<"query D1">>),
    File(<<"e", ".", "g", "r", "a", "p", "h", "q", "l">>, FALSE, <<>>),
    File(<<"R", "E", "A", "D", "M", "E", ".", "m", "d">>, FALSE, <<>>),
    File(<<"g", ".", "t", "x", "t">>, TRUE, <<"query G1">>) }

\* The directory listings of fs.readdirSync (line 361): up to MaxFiles entries
\* with distinct names, in any order.
Listings ==
  { l \in UNION { [1..n -> Files] : n \in 0..MaxFiles } :
      \A i, j \in DOMAIN l : i /= j => l[i].name /= l[j].name }

\* The `i` flag of the regular expression of line 366.
LowerCase(c) ==
  CASE c = "G" -> "g" [] c = "R" -> "r" [] c = "A" -> "a" [] c = "P" -> "p"
    [] c = "H" -> "h" [] c = "Q" -> "q" [] c = "L" -> "l" [] c = "E" -> "e"
    [] c = "D" -> "d" [] c = "M" -> "m" [] OTHER -> c

ToLowerCase(name) == [i \in DOMAIN name |-> LowerCase(name[i])]

\* /.*\.(graphql?)/gi.test(filename) (line 366): the pattern is not anchored,
\* so it matches when ".graphq", with or without an "l" after it, occurs
\* anywhere in the name.  The literal is evaluated afresh on every call of the
\* callback, so the `g` flag's lastIndex never carries over.
IsOperationFilename(filename) ==
  \E i \in 1..Len(filename) : \E n \in {7, 8} :
    /\ i + n - 1 <= Len(filename)
    /\ SubSeq(ToLowerCase(filename), i, i + n - 1)
         = SubSeq(<<".", "g", "r", "a", "p", "h", "q", "l">>, 1, n)

\* The forEach of lines 365-377 from entry i on: `files` are the operation
\* files pushed so far, `parsed` the names handed to parse so far.  A throw of
\* parse ends the loop and the function.
RECURSIVE ReadOperationFiles(_, _, _, _)
ReadOperationFiles(listing, i, files, parsed) ==
  IF i > Len(listing) THEN [threw |-> FALSE, operationFiles |-> files, parsed |-> parsed]
  ELSE IF ~IsOperationFilename(listing[i].name)
    THEN ReadOperationFiles(listing, i + 1, files, parsed)
  ELSE IF ~listing[i].content.valid
    THEN [threw |-> TRUE, operationFiles |-> files,
          parsed |-> Append(parsed, listing[i].name)]
  ELSE ReadOperationFiles(listing, i + 1,
         Append(files, [name |-> listing[i].name,
                        parsedOperation |-> listing[i].content.definitions]),
         Append(parsed, listing[i].name))

\* The reduce of lines 384-391 from operation file i on.
RECURSIVE ReduceDefinitions(_, _, _)
ReduceDefinitions(files, i, acc) ==
  IF i > Len(files) THEN acc
  ELSE ReduceDefinitions(files, i + 1, acc \o files[i].parsedOperation)

\* print(parsedDoc) (line 393): the definitions' texts, a blank line between.
PrintDocument(definitions) == Join(definitions, "\n\n")

\* A variant that tests for a missing document instead of a blank one.
IsBlankDocumentOnlyMissing(source) == source = Undefined

\* currentOperationsDoc.trim().length === 0 (line 582): the printed text of a
\* definition is never blank, so a printed document trims to nothing exactly
\* when it is the empty text.
IsBlankDocument(source) == source = ""

ReadGraphQLOperationsSourceFiles(listing) ==
  LET read == ReadOperationFiles(listing, 1, <<>>, <<>>)
      definitions == ReduceDefinitions(read.operationFiles, 1, <<>>)
  IN [threw |-> read.threw,
      operationFiles |-> read.operationFiles,
      parsed |-> read.parsed,
      parsedDoc |-> IF read.threw THEN <<>> ELSE definitions,
      source |-> IF read.threw THEN "" ELSE PrintDocument(definitions)]

(***************************************************************************)
(* getNetlifyGraphConfig (lines 181-312) and the framework defaults        *)
(* (lines 20-179)                                                          *)
(*                                                                         *)
(* A configuration value is undefined, a string or an array of path        *)
(* segments.  A string is the sequence of its pieces, a piece being the    *)
(* path separator "/" or a run of other characters; a segment is a text.   *)
(***************************************************************************)
Undef == [t |-> "undefined", s |-> <<>>, a |-> <<>>]
Str(pieces) == [t |-> "string", s |-> pieces, a |-> <<>>]
Arr(items) == [t |-> "array", s |-> <<>>, a |-> items]
PathSep == "/"

\* JavaScript's truthiness, ||, && and string conversion on these values.
IsTruthy(v) == v.t = "array" \/ (v.t = "string" /\ v.s /= <<>>)
Or(v, w) == IF IsTruthy(v) THEN v ELSE w
Text(v) ==
  CASE v.t = "undefined" -> "undefined"
    [] v.t = "string" -> Join(v.s, "")
    [] OTHER -> Join(v.a, ",")

\* pieces.split(path.sep): `segment` is the segment being read.
RECURSIVE SplitPieces(_, _)
SplitPieces(pieces, segment) ==
  IF pieces = <<>> THEN <<segment>>
  ELSE IF Head(pieces) = PathSep
    THEN <<segment>> \o SplitPieces(Tail(pieces), "")
  ELSE SplitPieces(Tail(pieces), segment \o Head(pieces))

Split(v) == Arr(SplitPieces(v.s, ""))

\* Line 20.
filterRelativePathItems(items) == SelectSeq(items, LAMBDA part : part /= "")

ConfigKeys ==
  {"extension", "functionsPath", "webhookBasePath", "netlifyGraphPath",
   "netlifyGraphImplementationFilename", "netlifyGraphTypeDefinitionsFilename",
   "graphQLOperationsSourceDirectory", "graphQLOperationsSourceFilename",
   "graphQLSchemaFilename", "graphQLConfigJsonFilename", "netlifyGraphRequirePath",
   "moduleType", "language", "customGeneratorFile", "frameworkId", "framework",
   "runtimeTargetEnv"}

\* An object: every key it lacks is undefined.
Object(fields) == [k \in ConfigKeys |-> IF k \in DOMAIN fields THEN fields[k] ELSE Undef]

\* {...a, ...b}: the keys b has override those of a.
Spread(a, b) == [k \in ConfigKeys |-> IF b[k].t /= "undefined" THEN b[k] ELSE a[k]]

\* The names NetlifyGraph exports (lines 46, 50, 54): the directory name is an
\* array of segments, which lines 104 and 156 spread.
defaultSourceOperationsFilename == "netlifyGraphOperationsLibrary.graphql"
defaultSourceOperationsDirectoryName == <<"operations">>
defaultGraphQLSchemaFilename == "netlifyGraphSchema.graphql"

\* The settings every framework factory returns (lines 59-70, 108-119, 161-172).
FrameworkConfig(functionsPath, webhookBasePath, netlifyGraphPath, extension, graphQLOperationsSourceDirectory, netlifyGraphRequirePath, moduleType) ==
  Object([functionsPath |-> Arr(functionsPath),
          webhookBasePath |-> Str(webhookBasePath),
          netlifyGraphPath |-> Arr(netlifyGraphPath),
          netlifyGraphImplementationFilename |->
            Arr(Append(netlifyGraphPath, "index." \o Text(extension))),
          netlifyGraphTypeDefinitionsFilename |-> Arr(Append(netlifyGraphPath, "index.d.ts")),
          graphQLOperationsSourceDirectory |-> Arr(graphQLOperationsSourceDirectory),
          graphQLOperationsSourceFilename |->
            Arr(Append(netlifyGraphPath, defaultSourceOperationsFilename)),
          graphQLSchemaFilename |-> Arr(Append(netlifyGraphPath, defaultGraphQLSchemaFilename)),
          netlifyGraphRequirePath |-> Arr(netlifyGraphRequirePath),
          moduleType |-> moduleType])

\* The context of a factory holds baseConfig, detectedFunctionsPath and siteRoot
\* (lines 212-216) and the tool-wide NetlifyGraph.defaultNetlifyGraphConfig that
\* line 138 reads.

\* Lines 29-71.  Line 48 puts the directory name, an array, in as one item: it
\* is written here as its text.
makeDefaultNetlifyGraphConfig(context) ==
  LET functionsPath == filterRelativePathItems(context.detectedFunctionsPath)
      netlifyGraphPath == Append(functionsPath, "netlifyGraph")
  IN FrameworkConfig(functionsPath, <<"/", ".netlify", "/", "functions">>, netlifyGraphPath,
                     context.baseConfig["extension"],
                     Append(netlifyGraphPath, Join(defaultSourceOperationsDirectoryName, ",")),
                     <<"./netlifyGraph">>,
                     Or(context.baseConfig["moduleType"], Str(<<"esm">>)))

\* Lines 80-120.
makeDefaultNextJsNetlifyGraphConfig(context) ==
  LET functionsPath == filterRelativePathItems(context.siteRoot \o <<"pages", "api">>)
      netlifyGraphPath == filterRelativePathItems(context.siteRoot \o <<"lib", "netlifyGraph">>)
  IN FrameworkConfig(functionsPath, <<"/", "api">>, netlifyGraphPath,
                     context.baseConfig["extension"],
                     netlifyGraphPath \o defaultSourceOperationsDirectoryName,
                     <<"..", "..", "lib", "netlifyGraph">>,
                     Or(context.baseConfig["moduleType"], Str(<<"esm">>)))

\* Lines 129-173.
makeDefaultRemixNetlifyGraphConfig(context) ==
  LET functionsPath == filterRelativePathItems(context.detectedFunctionsPath)
      netlifyGraphPath ==
        filterRelativePathItems(context.siteRoot \o context.defaultNetlifyGraphConfig["netlifyGraphPath"].a)
  IN FrameworkConfig(functionsPath, <<"/", "webhooks">>, netlifyGraphPath,
                     context.baseConfig["extension"],
                     netlifyGraphPath \o defaultSourceOperationsDirectoryName,
                     <<"../../netlify/functions/netlifyGraph">>,
                     Str(<<"esm">>))

\* Lines 175-179 and 194-196: the factory for the detected framework.
makeDefaultFrameworkConfig(detectedFrameworkId, context) ==
  CASE detectedFrameworkId = Str(<<"next">>) -> makeDefaultNextJsNetlifyGraphConfig(context)
    [] detectedFrameworkId = Str(<<"remix">>) -> makeDefaultRemixNetlifyGraphConfig(context)
    [] OTHER -> makeDefaultNetlifyGraphConfig(context)

\* Line 138 spreads NetlifyGraph.defaultNetlifyGraphConfig.netlifyGraphPath: a
\* TypeError when there is none.
makeDefaultFrameworkConfigThrows(detectedFrameworkId, context) ==
  /\ detectedFrameworkId = Str(<<"remix">>)
  /\ context.defaultNetlifyGraphConfig["netlifyGraphPath"].t /= "array"

\* A variant that lets the default win over the user's value.
userSplitOrDefaultFirst(userValue, fallback) ==
  Or(fallback, IF IsTruthy(userValue) THEN Split(userValue) ELSE userValue)

\* (userSpecifiedConfig.x && userSpecifiedConfig.x.split(path.sep)) || fallback
\* (lines 240-285).
userSplitOr(userValue, fallback) ==
  Or(IF IsTruthy(userValue) THEN Split(userValue) ELSE userValue, fallback)

\* The settings the object literal of lines 293-309 names; the others come
\* from baseConfig.
ResolvedKeys ==
  {"functionsPath", "webhookBasePath", "netlifyGraphPath",
   "netlifyGraphImplementationFilename", "netlifyGraphTypeDefinitionsFilename",
   "graphQLOperationsSourceFilename", "graphQLSchemaFilename",
   "graphQLConfigJsonFilename", "netlifyGraphRequirePath", "framework", "language",
   "moduleType", "customGeneratorFile", "runtimeTargetEnv"}

\* Lines 186-187: frameworks[0] && frameworks[0].id.
detectedFramework(input) ==
  IF input.frameworks = <<>> THEN Undef ELSE Str(<<input.frameworks[1]>>)

\* Lines 189-216: siteRoot, detectedFunctionsPath and baseConfig, as handed to
\* the framework factory.
frameworkContext(input) ==
  LET siteRoot == <<PathSep>> \o filterRelativePathItems(SplitPieces(input.cwd, ""))
      detectedFunctionsPathString ==
        Or(input.functionsDirectory, Str(<<"netlify", PathSep, "functions">>))
      detectedFunctionsPath == <<PathSep>> \o Split(detectedFunctionsPathString).a
  IN [baseConfig |-> Spread(input.defaultNetlifyGraphConfig, input.userSpecifiedConfig),
      detectedFunctionsPath |-> detectedFunctionsPath,
      siteRoot |-> siteRoot,
      defaultNetlifyGraphConfig |-> input.defaultNetlifyGraphConfig]

\* Lines 181-312.  `input` is what the function reads: config.graph, the
\* tool-wide defaults, the frameworks listFrameworks resolved with, the
\* working directory, config.functionsDirectory and whether tsconfig.json
\* exists.
getNetlifyGraphConfig(input) ==
  LET userSpecifiedConfig == input.userSpecifiedConfig
      detectedFrameworkId == detectedFramework(input)
      context == frameworkContext(input)
      siteRoot == context.siteRoot
      baseConfig == context.baseConfig
      defaultFrameworkConfig == makeDefaultFrameworkConfig(detectedFrameworkId, context)
      autodetectedLanguage ==
        IF input.tsConfigExists THEN Str(<<"typescript">>) ELSE Str(<<"javascript">>)
      defaultConfig ==
        Spread(Spread(input.defaultNetlifyGraphConfig, defaultFrameworkConfig),
               userSpecifiedConfig)
      userSpecifiedFunctionPath ==
        IF IsTruthy(userSpecifiedConfig["functionsPath"])
          THEN Split(userSpecifiedConfig["functionsPath"])
          ELSE userSpecifiedConfig["functionsPath"]
      functionsPath ==
        Or(IF IsTruthy(userSpecifiedFunctionPath)
             THEN Arr(siteRoot \o userSpecifiedFunctionPath.a)
             ELSE userSpecifiedFunctionPath,
           defaultConfig["functionsPath"])
      userSpecifiedFrameworkId ==
        Or(userSpecifiedConfig["frameworkId"], defaultConfig["frameworkId"])
      resolved ==
        [functionsPath |-> functionsPath,
         webhookBasePath |->
           userSplitOr(userSpecifiedConfig["webhookBasePath"], defaultConfig["webhookBasePath"]),
         netlifyGraphPath |->
           userSplitOr(userSpecifiedConfig["netlifyGraphPath"],
                       Or(defaultConfig["netlifyGraphPath"], functionsPath)),
         netlifyGraphImplementationFilename |->
           userSplitOr(userSpecifiedConfig["netlifyGraphImplementationFilename"],
                       defaultConfig["netlifyGraphImplementationFilename"]),
         netlifyGraphTypeDefinitionsFilename |->
           userSplitOr(userSpecifiedConfig["netlifyGraphTypeDefinitionsFilename"],
                       defaultConfig["netlifyGraphTypeDefinitionsFilename"]),
         graphQLOperationsSourceFilename |->
           userSplitOr(userSpecifiedConfig["graphQLOperationsSourceFilename"],
                       defaultConfig["graphQLOperationsSourceFilename"]),
         graphQLSchemaFilename |->
           userSplitOr(userSpecifiedConfig["graphQLSchemaFilename"],
                       defaultConfig["graphQLSchemaFilename"]),
         graphQLConfigJsonFilename |->
           userSplitOr(userSpecifiedConfig["graphQLConfigJsonFilename"],
                       Or(baseConfig["graphQLConfigJsonFilename"],
                          defaultConfig["graphQLConfigJsonFilename"])),
         netlifyGraphRequirePath |->
           userSplitOr(userSpecifiedConfig["netlifyGraphRequirePath"],
                       defaultConfig["netlifyGraphRequirePath"]),
         framework |-> Or(Or(userSpecifiedFrameworkId, detectedFrameworkId),
                          Str(<<"default">>)),
         language |-> Or(userSpecifiedConfig["language"], autodetectedLanguage),
         moduleType |->
           userSplitOr(userSpecifiedConfig["moduleType"], defaultConfig["moduleType"]),
         customGeneratorFile |->
           userSplitOr(userSpecifiedConfig["customGeneratorFile"],
                       defaultConfig["customGeneratorFile"]),
         runtimeTargetEnv |->
           Or(Or(userSpecifiedConfig["runtimeTargetEnv"], defaultConfig["runtimeTargetEnv"]),
              Str(<<"node">>))]
  IN [threw |-> makeDefaultFrameworkConfigThrows(detectedFrameworkId, context),
      fullConfig |-> [k \in ConfigKeys |->
                        IF k \in ResolvedKeys THEN resolved[k] ELSE baseConfig[k]]]


EmptyObject == [k \in ConfigKeys |-> Undef]

\* NetlifyGraph.defaultNetlifyGraphConfig (lines 138, 208, 224): a tool that
\* sets every setting, each to a value of its own, and one that sets only the
\* extension.
ToolConfigs ==
  { Object([extension |-> Str(<<"js">>),
            functionsPath |-> Arr(<<"tool", "functions">>),
            webhookBasePath |-> Str(<<"/", "tool">>),
            netlifyGraphPath |-> Arr(<<"tool", "netlifyGraph">>),
            netlifyGraphImplementationFilename |-> Arr(<<"tool", "index.js">>),
            netlifyGraphTypeDefinitionsFilename |-> Arr(<<"tool", "index.d.ts">>),
            graphQLOperationsSourceDirectory |-> Arr(<<"tool", "operations">>),
            graphQLOperationsSourceFilename |-> Arr(<<"tool", "library.graphql">>),
            graphQLSchemaFilename |-> Arr(<<"tool", "schema.graphql">>),
            graphQLConfigJsonFilename |-> Arr(<<"tool", ".graphqlrc.json">>),
            netlifyGraphRequirePath |-> Arr(<<"tool">>),
            moduleType |-> Str(<<"commonjs">>),
            language |-> Str(<<"tool-language">>),
            framework |-> Str(<<"tool-framework">>),
            runtimeTargetEnv |-> Str(<<"tool-runtime">>)]),
    Object([extension |-> Str(<<"js">>)]) }

\* What a user may write for a setting of config.graph: the empty text or a
\* path of two segments.
UserValues == {Str(<<>>), Str(<<"lib", PathSep, "graph">>)}

RECURSIVE SubsetsUpTo(_, _)
SubsetsUpTo(S, n) ==
  IF n = 0 THEN {{}}
  ELSE LET smaller == SubsetsUpTo(S, n - 1)
       IN smaller \cup {K \cup {x} : K \in smaller, x \in S}

\* config.graph with at most MaxUserSettings settings written.
UserConfigs ==
  UNION { { [k \in ConfigKeys |-> IF k \in K THEN f[k] ELSE Undef] : f \in [K -> UserValues] }
          : K \in SubsetsUpTo(ConfigKeys, MaxUserSettings) }

\* The site: working directory, config.functionsDirectory, tsconfig.json.
Sites ==
  { [cwd |-> <<PathSep>>, functionsDirectory |-> Undef, tsConfigExists |-> FALSE],
    [cwd |-> <<PathSep, "site">>, functionsDirectory |-> Undef, tsConfigExists |-> TRUE],
    [cwd |-> <<PathSep, "home", PathSep, "site">>,
     functionsDirectory |-> Str(<<"my", PathSep, "fns">>), tsConfigExists |-> FALSE] }

Frameworks == {<<>>, <<"next">>, <<"remix">>, <<"gatsby">>}

ConfigInput(user, tool, frameworks, site) ==
  [userSpecifiedConfig |-> user, defaultNetlifyGraphConfig |-> tool,
   frameworks |-> frameworks, cwd |-> site.cwd,
   functionsDirectory |-> site.functionsDirectory, tsConfigExists |-> site.tsConfigExists]

ConfigInputs ==
  { ConfigInput(user, tool, frameworks, site) :
      user \in UserConfigs, tool \in ToolConfigs, frameworks \in Frameworks, site \in Sites }

\* A site with nothing under config.graph and no framework detected.
PlainSite(tool) ==
  ConfigInput(EmptyObject, tool, <<>>,
              [cwd |-> <<PathSep, "site">>, functionsDirectory |-> Undef,
               tsConfigExists |-> FALSE])


(***************************************************************************)
(* onPreBuild (lines 472-636)                                              *)
(***************************************************************************)
\* JavaScript's truthiness of a string, undefined or null.
Truthy(v) == v \notin {Undefined, Null, ""}

FunctionNames == {"GetUser", "ListIssues"}

RECURSIVE SeqsUpTo(_, _)
SeqsUpTo(S, n) ==
  IF n = 0 THEN {<<>>}
  ELSE LET shorter == SeqsUpTo(S, n - 1)
       IN shorter \cup {Append(q, x) : q \in shorter, x \in S}

\* The environment a run starts in: the token variable, netlifyGraph.json,
\* what GraphQL.buildSchema makes of the schema file, the legacy operations
\* file.
Environments ==
  [token : {Undefined, "", "secret"},
   netlifyGraphJson : {"missing", "invalid", "null", "valid"},
   schemaText : {"throws", "none", "valid"},
   legacyFile : {"absent", "empty", "text", "unreadable"}]

Init ==
  /\ pc = "start"
  /\ env \in Environments
  /\ calls = <<>>
  /\ thrown = ""
  /\ outcome = "running"
  /\ configInput \in {PlainSite(tool) : tool \in ToolConfigs}
  /\ netlifyGraphConfig = EmptyObject
  /\ netlifyGraphJson = Undefined
  /\ newSchemaId = Undefined
  /\ schema = Undefined
  /\ filenames = <<>>
  /\ operationFiles = <<>>
  /\ parsedDoc = <<>>
  /\ currentOperationsDoc = Undefined
  /\ failedPersistedFunctions = <<>>
  /\ functionDefinitions = <<>>

\* An error thrown inside the try of line 503: control goes to line 630.
Throw(error) ==
  /\ thrown' = error
  /\ pc' = "catch"
  /\ outcome' = outcome

\* A plain `return` of the handler.
Return ==
  /\ pc' = "done"
  /\ outcome' = "returned"
  /\ thrown' = thrown

Goto(label) ==
  /\ pc' = label
  /\ outcome' = outcome
  /\ thrown' = thrown

\* build.failBuild(message, {error}) inside the try, after the calls logged
\* in `log`: it is logged and throws.
FailBuild(log, message, details, error) ==
  /\ calls' = Append(log, Call("build.failBuild", message, details, error, FALSE))
  /\ Throw(message)

\* A variant that takes only an unset variable for a missing token.
TokenMissingOnlyUnset(netlifyToken) == netlifyToken = Undefined

\* !netlifyToken (line 486)
TokenMissing(netlifyToken) == ~Truthy(netlifyToken)

\* Lines 484-501.
CheckToken ==
  /\ pc = "start"
  /\ IF TokenMissing(env.token)
       THEN /\ calls' = calls \o <<Step("console.warn", TRUE),
                                   Call("status.show", MissingTokenTitle, <<>>, "", TRUE)>>
            /\ Return
       ELSE /\ calls' = calls
            /\ Goto("resolveConfig")
  /\ UNCHANGED <<env, configInput, netlifyGraphConfig, netlifyGraphJson, newSchemaId, schema, filenames, operationFiles,
                 parsedDoc, currentOperationsDoc, failedPersistedFunctions,
                 functionDefinitions>>

\* Lines 504-508: resolveConfig resolves or rejects.
ResolveConfig ==
  /\ pc = "resolveConfig"
  /\ \E ok \in BOOLEAN :
       /\ calls' = Append(calls, Step("resolveConfig", ok))
       /\ IF ok THEN Goto("getNetlifyGraphConfig") ELSE Throw("resolveConfig rejected")
  /\ UNCHANGED <<env, configInput, netlifyGraphConfig, netlifyGraphJson, newSchemaId, schema, filenames, operationFiles,
                 parsedDoc, currentOperationsDoc, failedPersistedFunctions,
                 functionDefinitions>>

\* Lines 510-514: getNetlifyGraphConfig awaits listFrameworks, which resolves
\* or rejects, and then computes the configuration.
GetNetlifyGraphConfigStep ==
  /\ pc = "getNetlifyGraphConfig"
  /\ \/ /\ calls' = Append(calls, Step("getNetlifyGraphConfig", FALSE))
        /\ Throw("listFrameworks rejected")
        /\ netlifyGraphConfig' = netlifyGraphConfig
     \/ LET result == getNetlifyGraphConfig(configInput) IN
        IF result.threw
          THEN /\ calls' = Append(calls, Step("getNetlifyGraphConfig", FALSE))
               /\ Throw("TypeError")
               /\ netlifyGraphConfig' = netlifyGraphConfig
          ELSE /\ calls' = Append(calls, Step("getNetlifyGraphConfig", TRUE))
               /\ netlifyGraphConfig' = result.fullConfig
               /\ Goto("readJson")
  /\ UNCHANGED <<env, configInput, netlifyGraphJson, newSchemaId, schema, filenames,
                 operationFiles, parsedDoc, currentOperationsDoc, failedPersistedFunctions,
                 functionDefinitions>>

\* A variant in which only the missing file throws.
ReadJsonThrowsOnlyMissing(file) == file = "missing"

\* JSON.parse(fs.readFileSync('netlifyGraph.json', 'utf8')) throws (lines
\* 518-520): readFileSync on a missing file, JSON.parse on text that is not JSON.
ReadJsonThrows(file) == file \in {"missing", "invalid"}

\* Lines 516-528.
ReadNetlifyGraphJson ==
  /\ pc = "readJson"
  /\ IF ReadJsonThrows(env.netlifyGraphJson)
       THEN /\ FailBuild(Append(calls, Step("read netlifyGraph.json", FALSE)),
                         ReadJsonErrorMessage, <<>>, "netlifyGraph.json unreadable")
            /\ netlifyGraphJson' = netlifyGraphJson
       ELSE /\ calls' = Append(calls, Step("read netlifyGraph.json", TRUE))
            /\ netlifyGraphJson' = IF env.netlifyGraphJson = "null" THEN Null ELSE "object"
            /\ Goto("createSchema")
  /\ UNCHANGED <<env, configInput, netlifyGraphConfig, newSchemaId, schema, filenames, operationFiles, parsedDoc,
                 currentOperationsDoc, failedPersistedFunctions, functionDefinitions>>

\* Lines 530-557.  The argument netlifyGraphJson.enabledServices is evaluated
\* before the call: on null it throws a TypeError and the mutation is not
\* called.  The mutation rejects, or resolves with or without
\* data.oneGraph.createGraphQLSchema.graphQLSchema (without it line 556 throws).
CreateGraphQLSchema ==
  /\ pc = "createSchema"
  /\ IF ~Truthy(netlifyGraphJson)
       THEN /\ calls' = Append(calls, Step("console.log", TRUE))
            /\ Throw("TypeError")
            /\ newSchemaId' = newSchemaId
       ELSE \E result \in {"rejected", "no data", "created"} :
              /\ calls' = calls \o
                   <<Step("console.log", TRUE),
                     Step("executeCreateGraphQLSchemaMutation", result /= "rejected")>>
                   \o (IF result = "rejected" THEN <<>> ELSE <<Step("console.log", TRUE)>>)
              /\ IF result = "created"
                   THEN newSchemaId' = "schema-id" /\ Goto("readSchema")
                   ELSE /\ newSchemaId' = newSchemaId
                        /\ Throw(IF result = "rejected" THEN "mutation rejected" ELSE "TypeError")
  /\ UNCHANGED <<env, configInput, netlifyGraphConfig, netlifyGraphJson, schema, filenames, operationFiles, parsedDoc,
                 currentOperationsDoc, failedPersistedFunctions, functionDefinitions>>

\* Line 561, readGraphQLSchemaFile (lines 323-329): mkdirSync or readFileSync
\* may throw.
ReadGraphQLSchemaFile ==
  /\ pc = "readSchema"
  /\ \E ok \in BOOLEAN :
       /\ calls' = Append(calls, Step("readGraphQLSchemaFile", ok))
       /\ IF ok THEN Goto("buildSchema") ELSE Throw("schema file unreadable")
  /\ UNCHANGED <<env, configInput, netlifyGraphConfig, netlifyGraphJson, newSchemaId, schema, filenames, operationFiles,
                 parsedDoc, currentOperationsDoc, failedPersistedFunctions,
                 functionDefinitions>>

\* Lines 563-567: the schema buildSchema returns; a throw is caught and logged
\* and leaves `schema` undefined.
BuildSchemaResult(schemaText) == IF schemaText = "valid" THEN "schema" ELSE Undefined

\* What lines 569-572 do when there is no schema: log and return.
NoSchema ==
  /\ calls' = calls \o
       <<Step("GraphQL.buildSchema", env.schemaText /= "throws")>>
       \o (IF env.schemaText = "throws" THEN <<Step("console.error", TRUE)>> ELSE <<>>)
       \o <<Step("console.error", TRUE)>>
  /\ Return

\* Lines 559-572.
BuildSchema ==
  /\ pc = "buildSchema"
  /\ schema' = BuildSchemaResult(env.schemaText)
  /\ IF ~Truthy(schema')
       THEN NoSchema
       ELSE /\ calls' = Append(calls, Step("GraphQL.buildSchema", TRUE))
            /\ Goto("legacy")
  /\ UNCHANGED <<env, configInput, netlifyGraphConfig, netlifyGraphJson, newSchemaId, filenames, operationFiles, parsedDoc,
                 currentOperationsDoc, failedPersistedFunctions, functionDefinitions>>

\* readLegacyGraphQLOperationsSourceFile (lines 336-347): null when the file
\* does not exist, else its text.
ReadLegacyGraphQLOperationsSourceFile(legacyFile) ==
  CASE legacyFile = "absent" -> Null
    [] legacyFile = "empty" -> ""
    [] OTHER -> "query Legacy"

\* A variant that leaves the test out.
LegacyFoundNever(legacySourceGraphQLFile) == FALSE

\* A variant with the test inverted.
LegacyFoundInverted(legacySourceGraphQLFile) == ~Truthy(legacySourceGraphQLFile)

\* if (legacySourceGraphQLFile) (line 576)
LegacyFound(legacySourceGraphQLFile) == Truthy(legacySourceGraphQLFile)

\* Lines 574-578.
CheckLegacy ==
  /\ pc = "legacy"
  /\ IF env.legacyFile = "unreadable"
       THEN /\ calls' = Append(calls, Step("readLegacyGraphQLOperationsSourceFile", FALSE))
            /\ Throw("legacy file unreadable")
       ELSE IF LegacyFound(ReadLegacyGraphQLOperationsSourceFile(env.legacyFile))
         THEN FailBuild(Append(calls, Step("readLegacyGraphQLOperationsSourceFile", TRUE)),
                        LegacyMessage, <<>>, "")
         ELSE /\ calls' = Append(calls, Step("readLegacyGraphQLOperationsSourceFile", TRUE))
              /\ Goto("readOperations")
  /\ UNCHANGED <<env, configInput, netlifyGraphConfig, netlifyGraphJson, newSchemaId, schema, filenames, operationFiles,
                 parsedDoc, currentOperationsDoc, failedPersistedFunctions,
                 functionDefinitions>>

\* The calls of parse made by the loop of lines 365-377: the last one is the
\* one that threw, if one did.
ParseCalls(read) ==
  [i \in 1..Len(read.parsed) |->
     Call("GraphQL.parse", Join(read.parsed[i], ""), <<>>, "",
          ~(read.threw /\ i = Len(read.parsed)))]

\* Lines 580-587.  mkdirSync, path.resolve or readdirSync may throw (line 357
\* does, spreading undefined, when the configuration names no operations
\* directory); else the directory has some listing.
ReadOperations ==
  /\ pc = "readOperations"
  /\ \/ /\ calls' = Append(calls, Step("fs.readdirSync", FALSE))
        /\ Throw("operations directory unreadable")
        /\ UNCHANGED <<filenames, operationFiles, parsedDoc, currentOperationsDoc>>
     \/ \E listing \in Listings :
          LET read == ReadGraphQLOperationsSourceFiles(listing) IN
          /\ netlifyGraphConfig["graphQLOperationsSourceDirectory"].t /= "undefined"
          /\ filenames' = listing
          /\ operationFiles' = read.operationFiles
          /\ parsedDoc' = read.parsedDoc
          /\ IF read.threw
               THEN /\ calls' = calls \o <<Step("fs.readdirSync", TRUE)>> \o ParseCalls(read)
                    /\ currentOperationsDoc' = currentOperationsDoc
                    /\ Throw("GraphQL syntax error")
               ELSE /\ currentOperationsDoc' = read.source
                    /\ IF IsBlankDocument(currentOperationsDoc')
                         THEN /\ calls' = calls \o <<Step("fs.readdirSync", TRUE)>>
                                   \o ParseCalls(read)
                                   \o <<Step("GraphQL.print", TRUE), Step("console.warn", TRUE)>>
                              /\ Return
                         ELSE /\ calls' = calls \o <<Step("fs.readdirSync", TRUE)>>
                                   \o ParseCalls(read) \o <<Step("GraphQL.print", TRUE)>>
                              /\ Goto("extractFunctions")
  /\ UNCHANGED <<env, configInput, netlifyGraphConfig, netlifyGraphJson, newSchemaId, schema, failedPersistedFunctions,
                 functionDefinitions>>

\* Lines 589-591: GraphQL.parse and extractFunctionsFromOperationDoc return or
\* throw.
ExtractFunctions ==
  /\ pc = "extractFunctions"
  /\ \E ok \in BOOLEAN :
       /\ calls' = Append(calls, Step("extractFunctionsFromOperationDoc", ok))
       /\ IF ok THEN Goto("generate") ELSE Throw("extraction failed")
  /\ UNCHANGED <<env, configInput, netlifyGraphConfig, netlifyGraphJson, newSchemaId, schema, filenames, operationFiles,
                 parsedDoc, currentOperationsDoc, failedPersistedFunctions,
                 functionDefinitions>>

\* What the generator may return as functionDefinitions.
FunctionDefinitionLists ==
  { [i \in 1..n |-> "Function" \o ToString(i)] : n \in 0..MaxFunctions }

\* Lines 411-425, in generatePersistedFunctionsFile: the generator rejects, or
\* resolves with the failed functions (here their operation names) and the
\* function definitions.
GeneratePersistedFunctionsSource ==
  /\ pc = "generate"
  /\ \/ /\ calls' = Append(calls, Step("generatePersistedFunctionsSource", FALSE))
        /\ Throw("generator rejected")
        /\ UNCHANGED <<failedPersistedFunctions, functionDefinitions>>
     \/ \E failed \in SeqsUpTo(FunctionNames, MaxFailed) :
        \E definitions \in FunctionDefinitionLists :
          /\ calls' = Append(calls, Step("generatePersistedFunctionsSource", TRUE))
          /\ failedPersistedFunctions' = failed
          /\ functionDefinitions' = definitions
          /\ Goto("writeClient")
  /\ UNCHANGED <<env, configInput, netlifyGraphConfig, netlifyGraphJson, newSchemaId, schema, filenames, operationFiles,
                 parsedDoc, currentOperationsDoc>>

\* Lines 427-436: the client file is written, or mkdirSync or writeFileSync
\* throws.
WriteClient ==
  /\ pc = "writeClient"
  /\ \E ok \in BOOLEAN :
       /\ calls' = Append(calls, Step("write client", ok))
       /\ IF ok THEN Goto("writeTypeDefinitions") ELSE Throw("client file not writable")
  /\ UNCHANGED <<env, configInput, netlifyGraphConfig, netlifyGraphJson, newSchemaId, schema, filenames, operationFiles,
                 parsedDoc, currentOperationsDoc, failedPersistedFunctions,
                 functionDefinitions>>

\* Lines 438-463.
WriteTypeDefinitions ==
  /\ pc = "writeTypeDefinitions"
  /\ \E ok \in BOOLEAN :
       /\ calls' = Append(calls, Step("write type definitions", ok))
       /\ IF ok THEN Goto("report") ELSE Throw("type definitions file not writable")
  /\ UNCHANGED <<env, configInput, netlifyGraphConfig, netlifyGraphJson, newSchemaId, schema, filenames, operationFiles,
                 parsedDoc, currentOperationsDoc, failedPersistedFunctions,
                 functionDefinitions>>

\* A variant that is off by one.
HasFailedFunctionsOffByOne(failed) == Len(failed) > 1

\* failedPersistedFunctions.length > 0 (line 606)
HasFailedFunctions(failed) == Len(failed) > 0

\* Lines 606-629.
Report ==
  /\ pc = "report"
  /\ IF HasFailedFunctions(failedPersistedFunctions)
       THEN FailBuild(Append(calls, Call("status.show",
                                         FailedTitle(failedPersistedFunctions),
                                         <<>>, "", TRUE)),
                      PersistErrorMessage(failedPersistedFunctions),
                      failedPersistedFunctions, "")
       ELSE /\ calls' = Append(calls, Call("status.show", SuccessTitle(functionDefinitions),
                                           <<>>, "", TRUE))
            /\ Return
  /\ UNCHANGED <<env, configInput, netlifyGraphConfig, netlifyGraphJson, newSchemaId, schema, filenames, operationFiles,
                 parsedDoc, currentOperationsDoc, failedPersistedFunctions,
                 functionDefinitions>>

\* Lines 630-635: the catch reports the error through failBuild, which throws
\* out of the handler.
Catch ==
  /\ pc = "catch"
  /\ calls' = Append(calls, Call("build.failBuild", GenericErrorMessage, <<>>, thrown, FALSE))
  /\ pc' = "done"
  /\ outcome' = "failed"
  /\ thrown' = thrown
  /\ UNCHANGED <<env, configInput, netlifyGraphConfig, netlifyGraphJson, newSchemaId, schema, filenames, operationFiles,
                 parsedDoc, currentOperationsDoc, failedPersistedFunctions,
                 functionDefinitions>>

Next ==
  \/ CheckToken
  \/ ResolveConfig
  \/ GetNetlifyGraphConfigStep
  \/ ReadNetlifyGraphJson
  \/ CreateGraphQLSchema
  \/ ReadGraphQLSchemaFile
  \/ BuildSchema
  \/ CheckLegacy
  \/ ReadOperations
  \/ ExtractFunctions
  \/ GeneratePersistedFunctionsSource
  \/ WriteClient
  \/ WriteTypeDefinitions
  \/ Report
  \/ Catch

Spec == Init /\ [][Next]_vars

(***************************************************************************)
(* getNetlifyGraphConfig on its own: the run is at line 510, with any       *)
(* config.graph, tool defaults, detected framework and site.               *)
(***************************************************************************)
InitConfig ==
  /\ pc = "getNetlifyGraphConfig"
  /\ env = [token |-> "secret", netlifyGraphJson |-> "valid", schemaText |-> "valid",
            legacyFile |-> "absent"]
  /\ calls = <<Step("resolveConfig", TRUE)>>
  /\ thrown = ""
  /\ outcome = "running"
  /\ configInput \in ConfigInputs
  /\ netlifyGraphConfig = EmptyObject
  /\ netlifyGraphJson = Undefined
  /\ newSchemaId = Undefined
  /\ schema = Undefined
  /\ filenames = <<>>
  /\ operationFiles = <<>>
  /\ parsedDoc = <<>>
  /\ currentOperationsDoc = Undefined
  /\ failedPersistedFunctions = <<>>
  /\ functionDefinitions = <<>>

NextConfig == GetNetlifyGraphConfigStep

SpecConfig == InitConfig /\ [][NextConfig]_vars

(***************************************************************************)
(* Properties of onPreBuild                                                *)
(***************************************************************************)
CallsTo(op) == SelectSeq(calls, LAMBDA c : c.op = op)
Called(op) == \E i \in DOMAIN calls : calls[i].op = op
Returned(op) == \E i \in DOMAIN calls : calls[i].op = op /\ calls[i].ok
FailBuildCalls == CallsTo("build.failBuild")
StatusShowCalls == CallsTo("status.show")
RemoteCalls == {"executeCreateGraphQLSchemaMutation", "generatePersistedFunctionsSource"}
Done == pc = "done"

\* C1: when NETLIFY_GRAPH_PERSIST_QUERY_TOKEN is unset or empty, no remote call
\* is made, build.failBuild is never invoked, and the run ends (returns) after
\* exactly one status.show call, the one announcing the missing token.
C1_MissingTokenSkips ==
  env.token \in {Undefined, ""} =>
    /\ pc \in {"start", "done"}
    /\ \A i \in DOMAIN calls : calls[i].op \notin RemoteCalls \cup {"build.failBuild"}
    /\ Done => /\ outcome = "returned"
               /\ Len(StatusShowCalls) = 1
               /\ calls[Len(calls)] = Call("status.show", MissingTokenTitle, <<>>, "", TRUE)

C1_Witness ==
  /\ Done
  /\ env.token = ""
  /\ Len(StatusShowCalls) = 1
  /\ FailBuildCalls = <<>>

\* C2 as stated: with the token present, whenever the legacy operations file
\* exists the run ends failed and build.failBuild was given the migration
\* instruction, whatever the file holds and whatever became of the schema.
C2_LegacyAlwaysFails ==
  (Done /\ Truthy(env.token) /\ env.legacyFile /= "absent") =>
    /\ outcome = "failed"
    /\ \E i \in DOMAIN FailBuildCalls : FailBuildCalls[i].msg = LegacyMessage

\* C2 as amended: in a run that reaches the legacy check (every earlier step
\* returned and the schema was built), a legacy file with non-empty text makes
\* build.failBuild be invoked with the migration instruction before the
\* operations directory is read, and the run ends failed, the catch of line
\* 630 re-reporting that error.
C2_LegacyFailsWhenReached ==
  (Returned("readLegacyGraphQLOperationsSourceFile") /\ env.legacyFile = "text") =>
    /\ pc \in {"catch", "done"}
    /\ ~Called("fs.readdirSync")
    /\ ~Called("generatePersistedFunctionsSource")
    /\ Len(FailBuildCalls) >= 1
    /\ FailBuildCalls[1] = Call("build.failBuild", LegacyMessage, <<>>, "", FALSE)
    /\ Done => /\ outcome = "failed"
               /\ Len(FailBuildCalls) = 2
               /\ FailBuildCalls[2] =
                    Call("build.failBuild", GenericErrorMessage, <<>>, LegacyMessage, FALSE)

C2_Witness ==
  /\ Done
  /\ env.legacyFile = "text"
  /\ outcome = "failed"
  /\ Len(FailBuildCalls) = 2
  /\ FailBuildCalls[1].msg = LegacyMessage

\* C3: in a run that reaches the schema step, when GraphQL.buildSchema throws
\* or yields no schema, build.failBuild is invoked and the run ends failed,
\* never with a silent return.
C3_SchemaFailureFailsBuild ==
  (Done /\ Called("GraphQL.buildSchema") /\ env.schemaText /= "valid") =>
    /\ Len(FailBuildCalls) >= 1
    /\ outcome = "failed"

\* C4 as stated: with the token present, whenever netlifyGraph.json is missing
\* or not JSON the run ends failed, build.failBuild was given the remediation
\* hint, and the schema-creation mutation was not invoked.
C4_BadJsonAlwaysHinted ==
  (Done /\ Truthy(env.token) /\ env.netlifyGraphJson \in {"missing", "invalid"}) =>
    /\ outcome = "failed"
    /\ \E i \in DOMAIN FailBuildCalls : FailBuildCalls[i].msg = ReadJsonErrorMessage
    /\ ~Called("executeCreateGraphQLSchemaMutation")

\* C4 as amended: when netlifyGraph.json is missing or not JSON the mutation is
\* never invoked; and in a run with the token in which the configuration was
\* resolved, build.failBuild is invoked with the remediation hint and the
\* error, and the run ends failed, the catch of line 630 re-reporting that
\* error.
C4_BadJsonHintedWhenReached ==
  env.netlifyGraphJson \in {"missing", "invalid"} =>
    /\ ~Called("executeCreateGraphQLSchemaMutation")
    /\ (Done /\ Returned("getNetlifyGraphConfig")) =>
         /\ outcome = "failed"
         /\ Len(FailBuildCalls) = 2
         /\ FailBuildCalls[1] = Call("build.failBuild", ReadJsonErrorMessage, <<>>,
                                     "netlifyGraph.json unreadable", FALSE)
         /\ FailBuildCalls[2] = Call("build.failBuild", GenericErrorMessage, <<>>,
                                     ReadJsonErrorMessage, FALSE)

C4_Witness ==
  /\ Done
  /\ env.netlifyGraphJson = "invalid"
  /\ outcome = "failed"
  /\ Len(FailBuildCalls) = 2
  /\ FailBuildCalls[1].msg = ReadJsonErrorMessage

\* A step of the pipeline that failed: a call that threw, or the schema step
\* that ended without a schema.
FailedStep(i) ==
  \/ calls[i].op /= "build.failBuild" /\ ~calls[i].ok
  \/ calls[i].op = "GraphQL.buildSchema" /\ env.schemaText /= "valid"

\* C5: a failure in any step aborts the rest and fails the build: after the
\* failing step only logging and build.failBuild follow, no step is attempted
\* twice, and build.failBuild is invoked before the run ends.
C5_FailureAbortsAndFailsBuild ==
  \A i \in DOMAIN calls :
    FailedStep(i) =>
      /\ \A j \in DOMAIN calls :
           j > i => calls[j].op \in {"console.error", "build.failBuild"}
      /\ \A j \in DOMAIN calls :
           j /= i => ~(calls[j].op = calls[i].op /\ calls[j].msg = calls[i].msg)
      /\ Done => (Len(FailBuildCalls) >= 1 /\ outcome = "failed")

\* C6: in a run that reaches the operations step, when the assembled document
\* is blank the run returns after a warning: build.failBuild and the generator
\* are never invoked, no file is written and status.show is not called.
C6_BlankDocumentSkips ==
  currentOperationsDoc = "" =>
    /\ Done
    /\ outcome = "returned"
    /\ calls[Len(calls)] = Step("console.warn", TRUE)
    /\ \A i \in DOMAIN calls :
         calls[i].op \notin {"build.failBuild", "generatePersistedFunctionsSource",
                             "extractFunctionsFromOperationDoc", "write client",
                             "write type definitions", "status.show"}

C6_Witness ==
  /\ Done
  /\ env.legacyFile = "absent"
  /\ currentOperationsDoc = ""
  /\ Len(filenames) > 0
  /\ operationFiles = <<>>
  /\ outcome = "returned"

\* C7: when generation returns, the outcome is reported one way.  With failed
\* functions: one status.show with their count, then build.failBuild with the
\* message listing their operation names in order and the failed functions as
\* details, and no success status.  Without: one status.show with the count of
\* functionDefinitions, and build.failBuild is never invoked.
C7_OutcomeReportedOnce ==
  (Done /\ Returned("write type definitions")) =>
    IF Len(failedPersistedFunctions) > 0
      THEN /\ StatusShowCalls
                = <<Call("status.show", FailedTitle(failedPersistedFunctions), <<>>, "", TRUE)>>
           /\ Len(FailBuildCalls) >= 1
           /\ FailBuildCalls[1]
                = Call("build.failBuild", PersistErrorMessage(failedPersistedFunctions),
                       failedPersistedFunctions, "", FALSE)
           /\ \E i \in DOMAIN calls :
                /\ calls[i].op = "status.show"
                /\ calls[i + 1].op = "build.failBuild"
           /\ failedPersistedFunctions = <<"ListIssues", "GetUser">> =>
                /\ StatusShowCalls[1].msg
                     = "Netlify Graph Build Plugin: Failed to persist 2 Graph functions"
                /\ FailBuildCalls[1].msg
                     = "Error persisting Netlify Graph operations for production: [ListIssues, GetUser]"
           /\ outcome = "failed"
      ELSE /\ StatusShowCalls
                = <<Call("status.show", SuccessTitle(functionDefinitions), <<>>, "", TRUE)>>
           /\ Len(functionDefinitions) = 1 =>
                StatusShowCalls[1].msg
                  = "Netlify Graph Build Plugin: Successfully persisted 1 Graph functions"
           /\ FailBuildCalls = <<>>
           /\ outcome = "returned"

C7_Witness ==
  /\ Done
  /\ Returned("write type definitions")
  /\ failedPersistedFunctions = <<"ListIssues", "GetUser">>
  /\ Len(StatusShowCalls) = 1
  /\ outcome = "failed"

C7_WitnessSuccess ==
  /\ Done
  /\ Returned("write type definitions")
  /\ failedPersistedFunctions = <<>>
  /\ Len(functionDefinitions) = 1
  /\ outcome = "returned"

(***************************************************************************)
(* Properties of readGraphQLOperationsSourceFiles                          *)
(***************************************************************************)
\* A `.graphql` file: its name ends in ".graphql", in either case.
IsGraphqlFile(name) ==
  /\ Len(name) >= 8
  /\ SubSeq(ToLowerCase(name), Len(name) - 7, Len(name))
       = <<".", "g", "r", "a", "p", "h", "q", "l">>

\* The definitions of the `.graphql` files of a listing from entry i on, in
\* listing order.
RECURSIVE GraphqlFileDefinitions(_, _)
GraphqlFileDefinitions(listing, i) ==
  IF i > Len(listing) THEN <<>>
  ELSE (IF IsGraphqlFile(listing[i].name) THEN listing[i].content.definitions ELSE <<>>)
         \o GraphqlFileDefinitions(listing, i + 1)

\* C10: the document assembled from a listing holds exactly the definitions of
\* its `.graphql` files, file after file in listing order and each file's in
\* their own order, and an entry that is not a `.graphql` file is never parsed
\* and contributes nothing.
C10_DocumentIsGraphqlFilesConcatenated ==
  currentOperationsDoc /= Undefined =>
    /\ parsedDoc = GraphqlFileDefinitions(filenames, 1)
    /\ \A i \in DOMAIN operationFiles : IsGraphqlFile(operationFiles[i].name)

(***************************************************************************)
(* Properties of getNetlifyGraphConfig                                     *)
(***************************************************************************)
ConfigComputed == Returned("getNetlifyGraphConfig")

\* The segments of a path written with single separators between its names.
Segments(v) == Arr(SelectSeq(v.s, LAMBDA piece : piece /= PathSep))

SplitSettings ==
  {"netlifyGraphPath", "netlifyGraphImplementationFilename",
   "netlifyGraphTypeDefinitionsFilename", "graphQLOperationsSourceFilename",
   "graphQLConfigJsonFilename", "graphQLSchemaFilename", "netlifyGraphRequirePath",
   "moduleType", "webhookBasePath", "customGeneratorFile"}

\* C8: for every setting resolved on its own, every framework and every tool
\* default, a non-empty value written by the user decides the returned value:
\* the path-like settings hold its segments (functionsPath under the site
\* root), language and runtimeTargetEnv hold it as written, and framework
\* holds the user's frameworkId.
C8_UserValueWins ==
  ConfigComputed =>
    LET user == configInput.userSpecifiedConfig IN
    /\ \A k \in SplitSettings :
         IsTruthy(user[k]) => netlifyGraphConfig[k] = Segments(user[k])
    /\ IsTruthy(user["functionsPath"]) =>
         netlifyGraphConfig["functionsPath"]
           = Arr(<<PathSep>> \o Segments(Str(configInput.cwd)).a
                   \o Segments(user["functionsPath"]).a)
    /\ IsTruthy(user["functionsPath"]) =>
         /\ Head(netlifyGraphConfig["functionsPath"].a) = PathSep
         /\ SubSeq(netlifyGraphConfig["functionsPath"].a,
                   Len(netlifyGraphConfig["functionsPath"].a) - 1,
                   Len(netlifyGraphConfig["functionsPath"].a)) = <<"lib", "graph">>
    /\ \A k \in {"language", "runtimeTargetEnv"} :
         IsTruthy(user[k]) => netlifyGraphConfig[k] = user[k]
    /\ IsTruthy(user["frameworkId"]) => netlifyGraphConfig["framework"] = user["frameworkId"]

C8_Witness ==
  /\ ConfigComputed
  /\ configInput.frameworks = <<"next">>
  /\ configInput.defaultNetlifyGraphConfig["netlifyGraphPath"] = Arr(<<"tool", "netlifyGraph">>)
  /\ configInput.userSpecifiedConfig["netlifyGraphPath"] = Str(<<"lib", PathSep, "graph">>)
  /\ netlifyGraphConfig["netlifyGraphPath"] = Arr(<<"lib", "graph">>)
  /\ netlifyGraphConfig["functionsPath"] = Arr(<<PathSep, "site", "pages", "api">>)

FactorySettings ==
  {"functionsPath", "webhookBasePath", "netlifyGraphPath",
   "netlifyGraphImplementationFilename", "netlifyGraphTypeDefinitionsFilename",
   "graphQLOperationsSourceDirectory", "graphQLOperationsSourceFilename",
   "graphQLSchemaFilename", "netlifyGraphRequirePath", "moduleType"}

\* C9: for every setting the framework factory produces, when the user writes
\* no value the returned configuration holds the value the factory of the
\* detected framework produced, not the tool-wide default.
C9_FrameworkDefaultWins ==
  ConfigComputed =>
    \A k \in FactorySettings :
      configInput.userSpecifiedConfig[k] = Undef =>
        netlifyGraphConfig[k]
          = makeDefaultFrameworkConfig(detectedFramework(configInput),
                                       frameworkContext(configInput))[k]

(***************************************************************************)
(* Ordering of the file writes in onPreBuild                               *)
(***************************************************************************)
\* The place in the log of the first call of `op` that returned, 0 if none.
FirstReturn(op) ==
  IF Returned(op)
    THEN CHOOSE i \in DOMAIN calls :
           /\ calls[i].op = op /\ calls[i].ok
           /\ \A j \in DOMAIN calls : (calls[j].op = op /\ calls[j].ok) => i <= j
    ELSE 0

\* The steps that come before the writes, in their order.
StepsBeforeWrites ==
  <<"read netlifyGraph.json", "executeCreateGraphQLSchemaMutation", "GraphQL.buildSchema",
    "readLegacyGraphQLOperationsSourceFile", "GraphQL.print",
    "generatePersistedFunctionsSource">>

PersistedFunctionsReport(c) ==
  \/ c.op = "status.show"
  \/ c.op = "build.failBuild" /\ c.msg = PersistErrorMessage(failedPersistedFunctions)

\* C11: the client file and the type-definitions file are written only after,
\* in this order, the token was found, netlifyGraph.json was parsed, the
\* mutation returned a schema id (it is invoked at most once), the schema file
\* was built into a schema, the legacy check found no legacy operations text,
\* and a non-empty operations document was assembled and handed to the
\* generator; each file is written at most once, the client file first, and
\* both writes come before any report of the persisted functions.
C11_WritesComeLastInOrder ==
  /\ Len(CallsTo("executeCreateGraphQLSchemaMutation")) <= 1
  /\ Len(CallsTo("write client")) <= 1
  /\ Len(CallsTo("write type definitions")) <= 1
  /\ \A w \in DOMAIN calls :
       calls[w].op \in {"write client", "write type definitions"} =>
         /\ Truthy(env.token)
         /\ netlifyGraphJson = "object"
         /\ newSchemaId = "schema-id"
         /\ schema = "schema" /\ env.schemaText = "valid"
         /\ env.legacyFile \in {"absent", "empty"}
         /\ currentOperationsDoc \notin {Undefined, ""} /\ Len(parsedDoc) > 0
         /\ \A n \in DOMAIN StepsBeforeWrites : FirstReturn(StepsBeforeWrites[n]) > 0
         /\ \A n \in 1..(Len(StepsBeforeWrites) - 1) :
              FirstReturn(StepsBeforeWrites[n]) < FirstReturn(StepsBeforeWrites[n + 1])
         /\ FirstReturn("generatePersistedFunctionsSource") < w
         /\ calls[w].op = "write type definitions" =>
              /\ FirstReturn("write client") > 0
              /\ FirstReturn("write client") < w
  /\ \A r \in DOMAIN calls :
       (PersistedFunctionsReport(calls[r]) /\ Truthy(env.token)) =>
         /\ FirstReturn("write client") > 0
         /\ FirstReturn("write type definitions") > FirstReturn("write client")
         /\ FirstReturn("write type definitions") < r

C11_Witness ==
  /\ Done
  /\ outcome = "failed"
  /\ Returned("write client")
  /\ Returned("write type definitions")
  /\ Len(failedPersistedFunctions) = 1
  /\ \E r \in DOMAIN calls :
       /\ calls[r].op = "build.failBuild"
       /\ calls[r].msg = PersistErrorMessage(failedPersistedFunctions)
       /\ FirstReturn("write type definitions") < r

====
